---- MODULE Spec2Model ----
(***************************************************************************)
(* Sandboxed code execution service.                                       *)
(*                                                                         *)
(*   - the /execute handler (backend/src/app/api.py, execute_code): it     *)
(*     writes the submitted code into a temporary directory, launches      *)
(*     nsjail on it, waits with a deadline, and maps the outcome to a      *)
(*     response;                                                           *)
(*   - the self-restriction runner (backend/sandbox_runner.py): resource   *)
(*     limits, seccomp allowlist, then the guest code;                     *)
(*   - the identity lookup (src/services/user_group.py).                   *)
(*                                                                         *)
(* Spec is one execute request together with the processes it launches;    *)
(* SpecRunner is one run of sandbox_runner.py.                             *)
(***************************************************************************)
EXTENDS Integers, Sequences, FiniteSets, TLC

\* ------------------------------------------------------------ bounds
\* Largest request timeout enumerated (the schema sets no maximum).
MaxTimeout == 2
\* Most bytes the guest writes, over both streams, in one run.
MaxOut == 2
\* Bytes a pipe holds before the writer blocks.
PipeCap == 1

None == "None"

\* ------------------------------------------------------------ text
\* The bytes a guest may write: a printable character, carriage return,
\* line feed, and a byte that is not valid in the locale's encoding.
Bytes == {"a", "CR", "LF", "BAD"}

\* bytes.decode(encoding) with errors="strict": fails on an invalid byte.
Decodable(bs) == \A i \in 1..Len(bs) : bs[i] # "BAD"

\* ------------------------------------------------------------ identity
\* A candidate list that starts with the superuser.
users_with_root == <<"root", "nobody", "www-data", "daemon", "nginx", "apache">>

possible_users == <<"nobody", "www-data", "daemon", "nginx", "apache">>
possible_groups == <<"nobody", "nogroup", "www-data", "daemon", "nginx", "apache">>

\* First name of the list that the host's database knows, else None.
RECURSIVE FirstKnown(_, _)
FirstKnown(names, db) ==
    IF names = <<>> THEN None
    ELSE IF Head(names) \in db THEN Head(names)
    ELSE FirstKnown(Tail(names), db)

_get_user(passwd) == FirstKnown(possible_users, passwd)
_get_group(grpdb) == FirstKnown(possible_groups, grpdb)

\* Falling back for the user and for the group each on its own.
_get_each(passwd, grpdb) ==
    LET user == FirstKnown(possible_users, passwd)
        group == FirstKnown(possible_groups, grpdb)
    IN  [user |-> IF user = None THEN "65534" ELSE user,
         group |-> IF group = None THEN "65534" ELSE group]

_get_user_group(passwd, grpdb) ==
    LET user == _get_user(passwd)
        group == _get_group(grpdb)
    IN  IF user = None \/ group = None
        THEN [user |-> "65534", group |-> "65534"]
        ELSE [user |-> user, group |-> group]

\* Host account databases enumerated for the process start.
HostPasswd == {{"root"}, {"root", "nobody", "daemon"}}
HostGroup == {{"root"}, {"root", "nogroup", "daemon"}}
\* Names an account database may hold; the resolution is examined over
\* every database made of them.
AccountNames == {"root", "nobody", "daemon", "apache"}
GroupNames == {"root", "nobody", "nogroup", "daemon"}
\* UNPRIVILEGED_USER, UNPRIVILEGED_GROUP before user_group.py has run.
Unresolved == [user |-> None, group |-> None]

\* ------------------------------------------------------------ requests
\* request.timeout: any integer the schema accepts (schema.py sets no range).
Timeouts == (0 - 1)..MaxTimeout
\* request.code, by what the guest does when run: "loop" never terminates on
\* its own, "prog" may write, make system calls and exit.
Codes == {"prog", "loop"}
\* str(uuid.uuid4()) and the names tempfile may pick.
Uuids == {"u1"}
TempNames == {"/tmp/tmp1"}
\* Exit statuses a guest may exit with on its own.
GuestExitCodes == {0, 1}
\* System calls outside write/exit/exit_group that a guest may attempt.
DeniedSyscalls == {"connect", "execve", "open_write"}

VARIABLES
    passwd,         \* names pwd.getpwnam finds on the host
    grpdb           \* names grp.getgrnam finds on the host

idVars == <<passwd, grpdb>>

VARIABLES
    UNPRIVILEGED,   \* [user, group]: UNPRIVILEGED_USER, UNPRIVILEGED_GROUP
    pc,             \* where the execute handler is
    state,          \* PREPARING, RUNNING, COMPLETED, TIMED_OUT, LAUNCH_FAILED
    request,        \* [code, timeout] or None
    execution_id,
    temp_dir,
    fs,             \* [dirs, files]: directories and file paths that exist
    nsjail_cmd,     \* the command line given to Popen, or NoCommand
    process,        \* the Popen child (nsjail): none, running, zombie, killed, reaped
    exitstatus,     \* the child's exit status, once it has exited
    guest,          \* [st, filtered, limited, status]: the guest interpreter
    outPipe,        \* bytes written to stdout and not yet read
    errPipe,        \* bytes written to stderr and not yet read
    capOut,         \* bytes communicate() has read from stdout
    capErr,         \* bytes communicate() has read from stderr
    clock,          \* whole seconds since Popen
    effects,        \* system calls outside the allowlist that took effect
    response        \* CodeResponse, HTTPException, or None

execVars == <<UNPRIVILEGED, pc, state, request, execution_id, temp_dir, fs,
              nsjail_cmd, process, exitstatus, guest, outPipe, errPipe,
              capOut, capErr, clock, effects, response>>

\* ------------------------------------------------------------ helpers
\* io.TextIOWrapper(newline=None) on read: "\r\n" and "\r" become "\n".
RECURSIVE TranslateNewlines(_)
TranslateNewlines(s) ==
    IF s = <<>> THEN <<>>
    ELSE IF Head(s) = "CR"
         THEN IF Len(s) >= 2 /\ s[2] = "LF"
              THEN <<"LF">> \o TranslateNewlines(Tail(Tail(s)))
              ELSE <<"LF">> \o TranslateNewlines(Tail(s))
         ELSE <<Head(s)>> \o TranslateNewlines(Tail(s))

\* os.path.join(temp_dir, f"{execution_id}.py")
FilePath(dir, id) == <<dir, id, ".py">>

\* A cleanup that runs only when the block returns, as rmtree placed after
\* the block's last statement would.
CleanupOnReturnOnly(f, dir, exc) ==
    IF exc = None
    THEN [dirs  |-> f.dirs \ {dir},
          files |-> {p \in f.files : p[1] # dir}]
    ELSE f

\* TemporaryDirectory.__exit__(exc, value, tb): the directory and all that
\* is in it are removed, whether the block returned or raised.
Cleanup(f, dir, exc) ==
    [dirs  |-> f.dirs \ {dir},
     files |-> {p \in f.files : p[1] # dir}]

\* The argument list of lines 28-52.
NsjailCmd(req, dir, path, ident) ==
    [mode         |-> "o",
     time_limit   |-> req.timeout,
     rlimit_cpu   |-> req.timeout,
     rlimit_as    |-> 100,
     chroot       |-> "/",
     cwd          |-> dir,
     user         |-> ident.user,
     group        |-> ident.group,
     disable_proc |-> TRUE,
     iface_no_lo  |-> TRUE,
     argv         |-> <<"/usr/bin/python3", path>>]

\* Whether the command runs the guest through sandbox_runner.py.
RunnerScript == <<"backend", "sandbox_runner", ".py">>
ThroughRunner(cmd) == cmd.argv[2] = RunnerScript

\* A deadline one second later than the one the handler sets.
DeadlineLate(req) == req.timeout + 2

\* communicate(timeout=request.timeout + 1)
Deadline(req) == req.timeout + 1

\* Exit status nsjail reports for a child ended by a signal.
SignalStatus(sig) == 128 + sig

CodeResponse(output, error, exit_code) ==
    [kind |-> "CodeResponse", output |-> output, error |-> error,
     exit_code |-> exit_code]

\* An exception answered with an ordinary result that carries its text.
ErrorAsResult(e) == CodeResponse(<<>>, <<e>>, 1)

\* Line 80: HTTPException(status_code=500, detail=...str(e)).
HTTPException(e) ==
    [kind |-> "HTTPException", status_code |-> 500, detail |-> e]

\* A timeout result that keeps what had been read before the deadline.
TimedOutPartial(out, err) ==
    CodeResponse(out, <<"Execution timed out">>, 0 - 1)

\* Lines 72-73, 76: the result of the TimeoutExpired branch.
TimedOutResult(out, err) ==
    CodeResponse(<<>>, <<"Execution timed out">>, 0 - 1)

NoResponse == [kind |-> "None"]
\* nsjail_cmd before line 28 has built it.
NoCommand == [argv |-> <<>>]
NoGuest == [st |-> "none", filtered |-> FALSE, limited |-> FALSE, status |-> 0]

\* What a system call outside the allowlist comes to for a guest of the
\* execute operation. Under a loaded filter it is refused with EPERM.
\* Without one only the jail's flags stand: --iface_no_lo leaves no
\* interface to connect through, nothing on the command line restricts
\* process creation, and whether a path is writable depends on the host.
SyscallOutcomes(g, cmd, call) ==
    IF g.filtered THEN {"EPERM"}
    ELSE IF call = "connect" /\ cmd.iface_no_lo THEN {"ENETUNREACH"}
    ELSE IF call = "open_write" THEN {"ok", "EACCES"}
    ELSE {"ok"}

\* ------------------------------------------------------------ sandbox_runner.py
CPU_TIME_LIMIT == 2
MEMORY_LIMIT == 100 * 1024 * 1024
OUTPUT_LIMIT == 5 * 1024 * 1024

RLIM_INFINITY == 0 - 1
Resources == {"RLIMIT_CPU", "RLIMIT_AS", "RLIMIT_FSIZE"}

\* The limit each of lines 10-12 asks for.
Requested(res) ==
    CASE res = "RLIMIT_CPU"   -> CPU_TIME_LIMIT
      [] res = "RLIMIT_AS"    -> MEMORY_LIMIT
      [] res = "RLIMIT_FSIZE" -> OUTPUT_LIMIT

\* Hard limits the runner may inherit: below what it asks for, equal to
\* it, or none.
InheritedHard(res) == {Requested(res) \div 2, Requested(res), RLIM_INFINITY}

RlimLeq(a, b) == b = RLIM_INFINITY \/ (a # RLIM_INFINITY /\ a <= b)

\* setrlimit(res, (l, l)): an unprivileged process may not raise its hard
\* limit; Python raises ValueError.
SetrlimitAccepted(cur, l, privileged) == privileged \/ RlimLeq(l, cur.hard)

VARIABLES
    renv,       \* [privileged, argv1, exists]: what the runner is started with
    rpc,        \* the line the runner is about to execute, or "exited"
    rlim,       \* resource -> [soft, hard]: the process's limits
    flt,        \* [created, defaction, rules, loaded]: the seccomp filter
    rstatus,    \* exit status of the runner process
    rfail,      \* "none", or the stage whose failure ended the process
    guestRan    \* whether exec() of the guest code was entered

runnerVars == <<renv, rpc, rlim, flt, rstatus, rfail, guestRan>>

\* ------------------------------------------------------------ the server
\* main.py line 39: one uvicorn process (workers=1), hence one event loop,
\* serves every request.
VARIABLES
    loop,       \* the request whose handler the event loop is running, or None
    hpc,        \* request -> absent, pending, mkdtemp, write, popen, communicate, done
    hreq,       \* request -> [kind, code, timeout]
    hid,        \* request -> execution_id
    hdir,       \* request -> temp_dir
    sfs,        \* [dirs, files, data]: the host's file system, data = <<path, content>>
    hsrc,       \* request -> the source its interpreter was started on
    hresp       \* request -> response

srvVars == <<loop, hpc, hreq, hid, hdir, sfs, hsrc, hresp>>

vars == <<srvVars, idVars, execVars, runnerVars>>

NoFilter == [created |-> FALSE, defaction |-> "ALLOW", rules |-> <<>>,
             loaded |-> FALSE]

\* The statements of the module body, in order, by line.
Lines == <<"L10", "L11", "L12", "L16", "L18", "L20", "L22", "L23", "L24", "L27">>

RECURSIVE IndexOf(_, _)
IndexOf(seq, x) == IF Head(seq) = x THEN 1 ELSE 1 + IndexOf(Tail(seq), x)

\* Control that goes on to the next statement although this one raised, as
\* a try/except around the setup statements would.
AfterSwallowed(line, raised) ==
    IF line = "L27" THEN "exited"
    ELSE Lines[IndexOf(Lines, line) + 1]

\* Where control goes after the statement at `line`: to the next statement,
\* or, when it raised, out of the module (nothing catches the exception).
After(line, raised) ==
    IF raised THEN "exited"
    ELSE IF line = "L27" THEN "exited"
    ELSE Lines[IndexOf(Lines, line) + 1]

\* Exit status of the interpreter when the module ends by an uncaught
\* exception, whether raised by a setup statement or by exec'd guest code.
UncaughtStatus(e) == 1

\* seccomp.Arg(0, seccomp.EQ, fd)
Arg(idx, op, val) == [idx |-> idx, op |-> op, val |-> val]

\* The rule each of lines 18-23 adds (sys.stdout.fileno() is 1,
\* sys.stderr.fileno() is 2).
RuleAt(line) ==
    CASE line = "L18" -> [action |-> "ALLOW", call |-> "write", args |-> <<Arg(0, "EQ", 1)>>]
      [] line = "L20" -> [action |-> "ALLOW", call |-> "write", args |-> <<Arg(0, "EQ", 2)>>]
      [] line = "L22" -> [action |-> "ALLOW", call |-> "exit_group", args |-> <<>>]
      [] line = "L23" -> [action |-> "ALLOW", call |-> "exit", args |-> <<>>]

\* What the kernel does with system call `call` whose argument 0 is `a0`.
FilterVerdict(f, call, a0) ==
    IF ~f.loaded THEN "ALLOW"
    ELSE IF \E i \in 1..Len(f.rules) :
               /\ f.rules[i].call = call
               /\ \A j \in 1..Len(f.rules[i].args) : f.rules[i].args[j].val = a0
         THEN "ALLOW"
         ELSE f.defaction

\* Requests in flight at the server, the deterministic programs they carry
\* ("print" writes one byte and exits 0, "loop" never exits), their
\* timeouts, and the names uuid4 and mkdtemp may produce.
ReqIds == {"r1", "r2"}
ServerCodes == {"print", "loop"}
ServerTimeouts == 1..MaxTimeout
ServerUuids == {"u1", "u2"}
ServerTempNames == {"/tmp/tmp1", "/tmp/tmp2"}

NoRequest == [kind |-> "none", code |-> "print", timeout |-> 1]

ServerQuiet ==
    /\ loop = None
    /\ hpc = [r \in ReqIds |-> "absent"]
    /\ hreq = [r \in ReqIds |-> NoRequest]
    /\ hid = [r \in ReqIds |-> None]
    /\ hdir = [r \in ReqIds |-> None]
    /\ sfs = [dirs |-> {}, files |-> {}, data |-> {}]
    /\ hsrc = [r \in ReqIds |-> None]
    /\ hresp = [r \in ReqIds |-> NoResponse]

RunnerQuiet ==
    /\ renv = [privileged |-> FALSE, argv1 |-> FALSE, exists |-> FALSE]
    /\ rpc = "L10"
    /\ rlim = [r \in Resources |-> [soft |-> RLIM_INFINITY, hard |-> RLIM_INFINITY]]
    /\ flt = NoFilter
    /\ rstatus = 0
    /\ rfail = "none"
    /\ guestRan = FALSE

\* ------------------------------------------------------------ execute_code
\* Process start: user_group.py lines 50-53.
ExecQuiet ==
    /\ pc = "idle"
    /\ state = "IDLE"
    /\ request = [code |-> "prog", timeout |-> 0]
    /\ execution_id = None
    /\ temp_dir = None
    /\ fs = [dirs |-> {}, files |-> {}]
    /\ nsjail_cmd = NoCommand
    /\ process = "none"
    /\ exitstatus = 0
    /\ guest = NoGuest
    /\ outPipe = <<>>
    /\ errPipe = <<>>
    /\ capOut = <<>>
    /\ capErr = <<>>
    /\ clock = 0
    /\ effects = {}
    /\ response = NoResponse

Init ==
    /\ passwd \in HostPasswd
    /\ grpdb \in HostGroup
    /\ UNPRIVILEGED = _get_user_group(passwd, grpdb)
    /\ ExecQuiet
    /\ RunnerQuiet
    /\ ServerQuiet

\* Lines 78-80 after the with block (if entered) has been left by an
\* exception e: the directory is cleaned up, the request fails with 500.
RaiseOut(e) ==
    /\ fs' = IF temp_dir = None THEN fs ELSE Cleanup(fs, temp_dir, e)
    /\ response' = HTTPException(e)
    /\ state' = "LAUNCH_FAILED"
    /\ pc' = "done"

\* Line 76 and the with block left by return.
ReturnOut(resp, st) ==
    /\ fs' = Cleanup(fs, temp_dir, None)
    /\ response' = resp
    /\ state' = st
    /\ pc' = "done"

\* Lines 16-20: a request arrives. The module has imported
\* UNPRIVILEGED_USER and UNPRIVILEGED_GROUP (line 10) before it serves.
Receive ==
    /\ pc = "idle"
    /\ UNPRIVILEGED # Unresolved
    /\ \E c \in Codes, t \in Timeouts : request' = [code |-> c, timeout |-> t]
    /\ \E id \in Uuids : execution_id' = id
    /\ state' = "PREPARING"
    /\ pc' = "mkdtemp"
    /\ UNCHANGED <<srvVars, idVars, runnerVars, UNPRIVILEGED, temp_dir, fs, nsjail_cmd, process, exitstatus,
                   guest, outPipe, errPipe, capOut, capErr, clock, effects,
                   response>>

\* Line 23: tempfile.TemporaryDirectory() makes a fresh directory, or raises.
MakeTempDir ==
    /\ pc = "mkdtemp"
    /\ \/ \E d \in TempNames \ fs.dirs :
             /\ temp_dir' = d
             /\ fs' = [fs EXCEPT !.dirs = @ \cup {d}]
             /\ pc' = "write"
             /\ UNCHANGED <<state, response>>
       \/ /\ RaiseOut("OSError")
          /\ UNCHANGED temp_dir
    /\ UNCHANGED <<srvVars, idVars, runnerVars, UNPRIVILEGED, request, execution_id, nsjail_cmd, process,
                   exitstatus, guest, outPipe, errPipe, capOut, capErr, clock,
                   effects>>

\* Lines 24-26: the source file is written, or open/write raises (the file
\* may have been created by then).
WriteSource ==
    /\ pc = "write"
    /\ LET file_path == FilePath(temp_dir, execution_id)
           written == [fs EXCEPT !.files = @ \cup {file_path}]
       IN  \/ /\ fs' = written
              /\ pc' = "popen"
              /\ UNCHANGED <<state, response>>
           \/ \E f \in {fs, written} :
                 /\ fs' = Cleanup(f, temp_dir, "OSError")
                 /\ response' = HTTPException("OSError")
                 /\ state' = "LAUNCH_FAILED"
                 /\ pc' = "done"
    /\ UNCHANGED <<srvVars, idVars, runnerVars, UNPRIVILEGED, request, execution_id, temp_dir, nsjail_cmd,
                   process, exitstatus, guest, outPipe, errPipe, capOut,
                   capErr, clock, effects>>

\* Lines 28-60: the command is built and Popen starts nsjail, which is to
\* set the jail up and run the interpreter on the source file; or Popen
\* raises.
Launch ==
    /\ pc = "popen"
    /\ LET cmd == NsjailCmd(request, temp_dir,
                            FilePath(temp_dir, execution_id), UNPRIVILEGED)
       IN  /\ nsjail_cmd' = cmd
           /\ \/ /\ process' = "running"
                 /\ guest' = [st |-> "starting",
                              filtered |-> ThroughRunner(cmd),
                              limited |-> ThroughRunner(cmd),
                              status |-> 0]
                 /\ clock' = 0
                 /\ state' = "RUNNING"
                 /\ pc' = "communicate"
                 /\ UNCHANGED <<fs, response>>
              \/ /\ RaiseOut("OSError")
                 /\ UNCHANGED <<process, guest, clock>>
    /\ UNCHANGED <<srvVars, idVars, runnerVars, UNPRIVILEGED, request, execution_id, temp_dir, exitstatus,
                   outPipe, errPipe, capOut, capErr, effects>>

\* ------------------------------------------------------------ the guest
\* Exit status of nsjail when it could not set the jail up.
JailSetupFailure(cmd) == 255

\* nsjail has applied the limits, identity and namespaces of its command
\* line and executes the interpreter.
JailStartsGuest ==
    /\ process = "running"
    /\ guest.st = "starting"
    /\ guest' = [guest EXCEPT !.st = "running"]
    /\ UNCHANGED <<srvVars, idVars, runnerVars, UNPRIVILEGED, pc, state, request, execution_id, temp_dir,
                   fs, nsjail_cmd, process, exitstatus, outPipe, errPipe,
                   capOut, capErr, clock, effects, response>>

\* nsjail cannot apply a limit, the identity or a namespace its command
\* line asks for: it exits with its failure status, no guest code run.
JailSetupFails ==
    /\ process = "running"
    /\ guest.st = "starting"
    /\ guest' = [guest EXCEPT !.st = "setup_failed"]
    /\ exitstatus' = JailSetupFailure(nsjail_cmd)
    /\ process' = "zombie"
    /\ UNCHANGED <<srvVars, idVars, runnerVars, UNPRIVILEGED, pc, state, request, execution_id, temp_dir,
                   fs, nsjail_cmd, outPipe, errPipe, capOut, capErr, clock,
                   effects, response>>

Written == Len(capOut) + Len(outPipe) + Len(capErr) + Len(errPipe)

\* The guest writes one byte to its stdout; it blocks while the pipe is full.
GuestWriteOut ==
    /\ guest.st = "running"
    /\ Written < MaxOut
    /\ Len(outPipe) < PipeCap
    /\ \E b \in Bytes : outPipe' = Append(outPipe, b)
    /\ UNCHANGED <<srvVars, idVars, runnerVars, UNPRIVILEGED, pc, state, request, execution_id, temp_dir,
                   fs, nsjail_cmd, process, exitstatus, guest, errPipe, capOut,
                   capErr, clock, effects, response>>

\* The guest writes one byte to its stderr.
GuestWriteErr ==
    /\ guest.st = "running"
    /\ Written < MaxOut
    /\ Len(errPipe) < PipeCap
    /\ \E b \in Bytes : errPipe' = Append(errPipe, b)
    /\ UNCHANGED <<srvVars, idVars, runnerVars, UNPRIVILEGED, pc, state, request, execution_id, temp_dir,
                   fs, nsjail_cmd, process, exitstatus, guest, outPipe, capOut,
                   capErr, clock, effects, response>>

\* The guest attempts a system call outside write/exit/exit_group.
GuestSyscall ==
    /\ guest.st = "running"
    /\ \E call \in DeniedSyscalls :
         \E r \in SyscallOutcomes(guest, nsjail_cmd, call) :
            effects' = IF r = "ok" THEN effects \cup {call} ELSE effects
    /\ effects' # effects
    /\ UNCHANGED <<srvVars, idVars, runnerVars, UNPRIVILEGED, pc, state, request, execution_id, temp_dir,
                   fs, nsjail_cmd, process, exitstatus, guest, outPipe,
                   errPipe, capOut, capErr, clock, response>>

\* The guest exits on its own; nsjail (mode "o"), if it is still there,
\* exits with the guest's status.
GuestExit ==
    /\ guest.st = "running"
    /\ request.code # "loop"
    /\ \E ec \in GuestExitCodes :
          /\ guest' = [guest EXCEPT !.st = "exited", !.status = ec]
          /\ exitstatus' = IF process = "running" THEN ec ELSE exitstatus
    /\ process' = IF process = "running" THEN "zombie" ELSE process
    /\ UNCHANGED <<srvVars, idVars, runnerVars, UNPRIVILEGED, pc, state, request, execution_id, temp_dir,
                   fs, nsjail_cmd, outPipe, errPipe, capOut, capErr, clock,
                   effects, response>>

\* nsjail's --time_limit: once the jail has existed that many seconds
\* nsjail kills the guest with SIGKILL and exits reporting that signal
\* (a limit of 0 or less sets no limit). Whether this or the handler's
\* deadline, one second later, comes first is up to the scheduler.
JailTimeLimit ==
    /\ process = "running"
    /\ guest.st = "running"
    /\ nsjail_cmd.time_limit > 0
    /\ clock >= nsjail_cmd.time_limit
    /\ guest' = [guest EXCEPT !.st = "exited", !.status = SignalStatus(9)]
    /\ exitstatus' = SignalStatus(9)
    /\ process' = "zombie"
    /\ UNCHANGED <<srvVars, idVars, runnerVars, UNPRIVILEGED, pc, state, request, execution_id, temp_dir,
                   fs, nsjail_cmd, outPipe, errPipe, capOut, capErr, clock,
                   effects, response>>

\* nsjail itself was killed: the guest it left behind may be taken down
\* with it by the kernel (parent-death signal, pid namespace), or not.
GuestDiesWithJail ==
    /\ process = "killed"
    /\ guest.st = "running"
    /\ guest' = [guest EXCEPT !.st = "exited", !.status = SignalStatus(9)]
    /\ UNCHANGED <<srvVars, idVars, runnerVars, UNPRIVILEGED, pc, state, request, execution_id, temp_dir,
                   fs, nsjail_cmd, process, exitstatus, outPipe, errPipe,
                   capOut, capErr, clock, effects, response>>

\* A second passes while the handler waits in communicate().
Tick ==
    /\ pc = "communicate"
    /\ process = "running"
    /\ clock < Deadline(request)
    /\ clock' = clock + 1
    /\ UNCHANGED <<srvVars, idVars, runnerVars, UNPRIVILEGED, pc, state, request, execution_id, temp_dir,
                   fs, nsjail_cmd, process, exitstatus, guest, outPipe,
                   errPipe, capOut, capErr, effects, response>>

\* ------------------------------------------------------------ communicate
\* Reading stdout to its end before stderr is looked at, as
\* process.stdout.read() followed by process.stderr.read() would.
ReadableInTurn(stream, out, err, writing) ==
    IF stream = "stdout" THEN out # <<>>
    ELSE err # <<>> /\ out = <<>> /\ ~writing

\* Both pipes are registered with one selector: a pipe is read as soon as
\* it holds data, whatever the state of the other.
Readable(stream, out, err, writing) ==
    IF stream = "stdout" THEN out # <<>> ELSE err # <<>>

\* Whether a process that may still write holds the pipes' write ends.
Writing == guest.st \in {"starting", "running"}

\* communicate() reads what is in the stdout pipe.
DrainOut ==
    /\ pc = "communicate"
    /\ Deadline(request) > 0
    /\ Readable("stdout", outPipe, errPipe, Writing)
    /\ capOut' = capOut \o outPipe
    /\ outPipe' = <<>>
    /\ UNCHANGED <<srvVars, idVars, runnerVars, UNPRIVILEGED, pc, state, request, execution_id, temp_dir,
                   fs, nsjail_cmd, process, exitstatus, guest, errPipe, capErr,
                   clock, effects, response>>

DrainErr ==
    /\ pc = "communicate"
    /\ Deadline(request) > 0
    /\ Readable("stderr", outPipe, errPipe, Writing)
    /\ capErr' = capErr \o errPipe
    /\ errPipe' = <<>>
    /\ UNCHANGED <<srvVars, idVars, runnerVars, UNPRIVILEGED, pc, state, request, execution_id, temp_dir,
                   fs, nsjail_cmd, process, exitstatus, guest, outPipe, capOut,
                   clock, effects, response>>

\* Lines 63-68, 76: both pipes are at end of file and the child has been
\* waited for; the bytes are decoded (text=True) and returned. A byte the
\* decoder rejects raises UnicodeDecodeError out of communicate().
CommunicateReturn ==
    /\ pc = "communicate"
    /\ Deadline(request) > 0
    /\ process = "zombie"
    /\ outPipe = <<>> /\ errPipe = <<>>
    /\ process' = "reaped"
    /\ IF Decodable(capOut) /\ Decodable(capErr)
       THEN ReturnOut(CodeResponse(TranslateNewlines(capOut),
                                   TranslateNewlines(capErr), exitstatus),
                      "COMPLETED")
       ELSE RaiseOut("UnicodeDecodeError")
    /\ UNCHANGED <<srvVars, idVars, runnerVars, UNPRIVILEGED, request, execution_id, temp_dir, nsjail_cmd,
                   exitstatus, guest, outPipe, errPipe, capOut, capErr, clock,
                   effects>>

\* Popen.kill(): poll() first, which reaps a child that has already exited;
\* otherwise SIGKILL to the child alone, and no wait follows.
Kill(p) == IF p = "running" THEN "killed" ELSE "reaped"

\* Lines 70-76: the deadline passed in communicate().
HandleTimeout ==
    /\ pc = "communicate"
    /\ clock >= Deadline(request)
    /\ process = "running" \/ Deadline(request) <= 0
    /\ process' = Kill(process)
    /\ ReturnOut(TimedOutResult(capOut, capErr), "TIMED_OUT")
    /\ UNCHANGED <<srvVars, idVars, runnerVars, UNPRIVILEGED, request, execution_id, temp_dir, nsjail_cmd,
                   exitstatus, guest, outPipe, errPipe, capOut, capErr, clock,
                   effects>>

Next ==
    \/ Receive
    \/ MakeTempDir
    \/ WriteSource
    \/ Launch
    \/ JailStartsGuest
    \/ JailSetupFails
    \/ GuestWriteOut
    \/ GuestWriteErr
    \/ GuestSyscall
    \/ GuestExit
    \/ JailTimeLimit
    \/ GuestDiesWithJail
    \/ Tick
    \/ DrainOut
    \/ DrainErr
    \/ CommunicateReturn
    \/ HandleTimeout

Spec == Init /\ [][Next]_vars

\* ------------------------------------------------------------ runner steps
\* The process ends with `status`.
RunnerExit(next, status, stage) ==
    /\ rpc' = next
    /\ rstatus' = IF next = "exited" THEN status ELSE rstatus
    /\ rfail' = IF next = "exited" THEN stage ELSE rfail

\* Lines 10-12: one setrlimit call.
SetLimit ==
    /\ rpc \in {"L10", "L11", "L12"}
    /\ LET res == CASE rpc = "L10" -> "RLIMIT_CPU"
                    [] rpc = "L11" -> "RLIMIT_AS"
                    [] rpc = "L12" -> "RLIMIT_FSIZE"
           ok == SetrlimitAccepted(rlim[res], Requested(res), renv.privileged)
       IN  /\ rlim' = IF ok
                      THEN [rlim EXCEPT ![res] = [soft |-> Requested(res),
                                                  hard |-> Requested(res)]]
                      ELSE rlim
           /\ RunnerExit(After(rpc, ~ok), UncaughtStatus("ValueError"), "setup")
    /\ UNCHANGED <<srvVars, idVars, execVars, renv, flt, guestRan>>

\* Line 16: the filter object, default action ERRNO(EPERM); seccomp_init
\* may fail.
CreateFilter ==
    /\ rpc = "L16"
    /\ \E ok \in BOOLEAN :
          /\ flt' = IF ok THEN [flt EXCEPT !.created = TRUE,
                                           !.defaction = "ERRNO(EPERM)"]
                    ELSE flt
          /\ RunnerExit(After(rpc, ~ok), UncaughtStatus("RuntimeError"), "setup")
    /\ UNCHANGED <<srvVars, idVars, execVars, renv, rlim, guestRan>>

\* Lines 18-23: one add_rule call; libseccomp may reject the rule.
AddRule ==
    /\ rpc \in {"L18", "L20", "L22", "L23"}
    /\ \E ok \in BOOLEAN :
          /\ flt' = IF ok THEN [flt EXCEPT !.rules = Append(@, RuleAt(rpc))]
                    ELSE flt
          /\ RunnerExit(After(rpc, ~ok), UncaughtStatus("RuntimeError"), "setup")
    /\ UNCHANGED <<srvVars, idVars, execVars, renv, rlim, guestRan>>

\* Line 24: the filter is loaded into the kernel, or the kernel refuses.
LoadFilter ==
    /\ rpc = "L24"
    /\ \E ok \in BOOLEAN :
          /\ flt' = IF ok THEN [flt EXCEPT !.loaded = TRUE] ELSE flt
          /\ RunnerExit(After(rpc, ~ok), UncaughtStatus("RuntimeError"), "setup")
    /\ UNCHANGED <<srvVars, idVars, execVars, renv, rlim, guestRan>>

\* AT_FDCWD, argument 0 of the openat() behind open(code_file, "r").
AT_FDCWD == 0 - 100

\* Lines 27-34: argv[1] is read, the file is opened and read, the source is
\* compiled and exec'd. Each step that raises ends the process; the guest
\* code, once entered, returns, raises or exits with a status of its own.
RunUserCode ==
    /\ rpc = "L27"
    /\ LET reachesExec ==
               /\ renv.argv1
               /\ FilterVerdict(flt, "openat", AT_FDCWD) = "ALLOW"
               /\ renv.exists
               /\ FilterVerdict(flt, "read", 3) = "ALLOW"
       IN  IF reachesExec
           THEN /\ guestRan' = TRUE
                /\ \E r \in {"returns", "raises"} :
                      RunnerExit("exited",
                                 IF r = "raises" THEN UncaughtStatus("guest") ELSE 0,
                                 IF r = "raises" THEN "guest" ELSE "none")
           ELSE /\ UNCHANGED guestRan
                /\ RunnerExit("exited", UncaughtStatus("OSError"), "post")
    /\ UNCHANGED <<srvVars, idVars, execVars, renv, rlim, flt>>

RunnerNext ==
    \/ SetLimit
    \/ CreateFilter
    \/ AddRule
    \/ LoadFilter
    \/ RunUserCode

\* One run of sandbox_runner.py, for every environment it may start in.
RunnerInit ==
    /\ passwd = {"root"}
    /\ grpdb = {"root"}
    /\ UNPRIVILEGED = _get_user_group(passwd, grpdb)
    /\ ExecQuiet
    /\ ServerQuiet
    /\ renv \in [privileged : BOOLEAN, argv1 : BOOLEAN, exists : BOOLEAN]
    /\ rpc = "L10"
    /\ \E c \in InheritedHard("RLIMIT_CPU"), a \in InheritedHard("RLIMIT_AS"),
          o \in InheritedHard("RLIMIT_FSIZE") :
          rlim = [r \in Resources |->
                     LET h == CASE r = "RLIMIT_CPU"   -> c
                                [] r = "RLIMIT_AS"    -> a
                                [] r = "RLIMIT_FSIZE" -> o
                     IN  [soft |-> h, hard |-> h]]
    /\ flt = NoFilter
    /\ rstatus = 0
    /\ rfail = "none"
    /\ guestRan = FALSE

SpecRunner == RunnerInit /\ [][RunnerNext]_vars

\* ============================================================ properties

\* ---- C1: once an execute request that created its temporary directory
\* has returned its response or error, whatever the outcome, neither the
\* directory nor the source file in it exists.
C1_TempDirRemoved ==
    (pc = "done" /\ temp_dir # None) =>
        /\ temp_dir \notin fs.dirs
        /\ FilePath(temp_dir, execution_id) \notin fs.files
        /\ \A p \in fs.files : p[1] # temp_dir

\* A request that wrote its source file, launched, timed out and returned.
C1_Witness ==
    /\ pc = "done"
    /\ temp_dir # None
    /\ state = "TIMED_OUT"
    /\ process = "killed"

\* ---- C2: a request whose process is still running when the deadline of
\* timeout + 1 seconds passes ends TIMED_OUT, the process having been sent
\* the kill, and every TIMED_OUT response is the fixed one: empty output,
\* error "Execution timed out", exit_code -1, whatever had been written.
C2_TimedOutFixedResult ==
    /\ (pc = "done" /\ process = "killed") => state = "TIMED_OUT"
    /\ state = "TIMED_OUT" =>
          /\ clock >= Deadline(request)
          /\ process \in {"killed", "reaped"}
          /\ response = [kind |-> "CodeResponse", output |-> <<>>,
                         error |-> <<"Execution timed out">>,
                         exit_code |-> 0 - 1]

\* A timed-out request whose guest had written to both streams, part of it
\* already read by communicate().
C2_Witness ==
    /\ state = "TIMED_OUT"
    /\ process = "killed"
    /\ request.timeout > 0
    /\ capOut # <<>>
    /\ capErr # <<>> \/ errPipe # <<>>

\* ---- C3: when the launched process exits on its own within the deadline
\* the request ends COMPLETED with exactly the guest's stdout as output,
\* its stderr as error and its exit status as exit_code; a guest that only
\* writes text to stdout and exits normally gets exit_code 0, that text as
\* output and an empty error.
C3_CompletedCarriesOutput ==
    (pc = "done" /\ process = "reaped" /\ request.timeout > 0) =>
        /\ state = "COMPLETED"
        /\ response = CodeResponse(capOut, capErr, exitstatus)
        /\ (guest.status = 0 /\ capErr = <<>>) =>
              response = CodeResponse(capOut, <<>>, 0)

\* ---- C4: a guest that never terminates on its own, run with a positive
\* timeout, ends TIMED_OUT with the timeout marker as error.
C4_LoopTimesOut ==
    (pc = "done" /\ process # "none" /\ request.code = "loop"
        /\ request.timeout > 0) =>
        /\ state = "TIMED_OUT"
        /\ response.kind = "CodeResponse"
        /\ response.error = <<"Execution timed out">>

\* ---- C5: after a request that hit the deadline has returned, neither the
\* immediate child (nsjail) nor the guest it spawned is still running or
\* left unreaped.
C5_GroupTerminated ==
    (pc = "done" /\ state = "TIMED_OUT" /\ request.timeout > 0) =>
        /\ process = "reaped"
        /\ guest.st # "running"

\* ---- C8: every guest started by the execute operation runs with the
\* in-process resource ceilings of the self-restriction layer applied.
C8_SecondLayer ==
    (guest.st = "running" /\ request.timeout > 0) =>
        (guest.limited /\ ThroughRunner(nsjail_cmd))

\* ---- C9: no system call outside the allowlist ever takes effect for a
\* guest run through the execute operation.
C9_NoDeniedSyscall == request.timeout > 0 => effects = {}

\* ---- C10: a request whose process was launched always gets a CodeResponse
\* (guest failures and timeouts are results, not request failures); only a
\* request that failed before or at launch gets the 500 error.
C10_OnlyOrchestrationFails ==
    (pc = "done" /\ request.timeout > 0) =>
        /\ process # "none" => response.kind = "CodeResponse"
        /\ response.kind = "HTTPException" =>
              (process = "none" /\ capOut = <<>> /\ capErr = <<>>)

\* ---- C6: in the runner the limits are all set before the allowlist is
\* begun, the allowlist is complete before the filter is loaded, and guest
\* code is entered only with the filter loaded and every limit set.
LimitsSet ==
    \A res \in Resources :
        rlim[res] = [soft |-> Requested(res), hard |-> Requested(res)]

Allowlist == <<RuleAt("L18"), RuleAt("L20"), RuleAt("L22"), RuleAt("L23")>>

C6_StrictOrder ==
    /\ (flt.created \/ flt.rules # <<>>) => LimitsSet
    /\ flt.rules # <<>> => flt.created
    /\ rpc \in {"L24", "L27"} => (LimitsSet /\ flt.created /\ flt.rules = Allowlist)
    /\ flt.loaded => (LimitsSet /\ flt.created /\ flt.rules = Allowlist)
    /\ rpc = "L27" => flt.loaded
    /\ guestRan => (flt.loaded /\ LimitsSet)

\* The runner about to run the user code, every restriction in place.
C6_Witness ==
    /\ rpc = "L27"
    /\ flt.loaded
    /\ LimitsSet
    /\ flt.rules = Allowlist

\* ---- C7: when a restriction step fails the runner exits at once with a
\* non-zero status that guest code failing after the restrictions does not
\* also produce, and no guest code has run.
GuestFailureStatuses == {UncaughtStatus("guest")}

C7_DistinctSetupStatus ==
    (rpc = "exited" /\ rfail = "setup") =>
        /\ rstatus # 0
        /\ rstatus \notin GuestFailureStatuses
        /\ ~guestRan

\* ------------------------------------------------------------ fairness
\* A host without the named accounts.
FairInit ==
    /\ Init
    /\ passwd = {"root"}
    /\ grpdb = {"root"}

\* The handler's own steps and the passing of time are not held up for
\* ever; nothing is assumed of the guest or of nsjail.
FairSpec ==
    /\ FairInit
    /\ [][Next]_vars
    /\ WF_vars(MakeTempDir)
    /\ WF_vars(WriteSource)
    /\ WF_vars(Launch)
    /\ WF_vars(Tick)
    /\ WF_vars(DrainOut)
    /\ WF_vars(DrainErr)
    /\ WF_vars(CommunicateReturn)
    /\ WF_vars(HandleTimeout)

\* ---- C11: the handler's wait is bounded. While it waits the clock never
\* passes timeout + 1 seconds since launch, and whatever the guest does
\* (never exits, fills a pipe and blocks, leaves output unread), a request
\* that has started waiting is eventually answered.
C11_BoundedWait ==
    /\ [](pc = "communicate" =>
            (clock <= request.timeout + 1 \/ (request.timeout < 0 /\ clock = 0)))
    /\ [](pc = "communicate" => <>(pc = "done"))

\* A guest that never exits and has filled its stdout pipe, whose request
\* was answered once the deadline passed.
C11_Witness ==
    /\ pc = "done"
    /\ response.kind = "CodeResponse"
    /\ request.code = "loop"
    /\ nsjail_cmd.time_limit <= 0
    /\ guest.st = "running"
    /\ Len(outPipe) = PipeCap

\* ------------------------------------------------------------ process start
\* user_group.py lines 50-58, run once when api.py imports the module: the
\* pair is resolved from the host's databases, or the import fails and the
\* server does not start.
ResolveIdentity ==
    /\ pc = "idle"
    /\ UNPRIVILEGED = Unresolved
    /\ \/ /\ UNPRIVILEGED' = _get_user_group(passwd, grpdb)
          /\ pc' = "idle"
       \/ /\ UNPRIVILEGED' = UNPRIVILEGED
          /\ pc' = "import_failed"
    /\ UNCHANGED <<srvVars, idVars, runnerVars, state, request, execution_id, temp_dir,
                   fs, nsjail_cmd, process, exitstatus, guest, outPipe,
                   errPipe, capOut, capErr, clock, effects, response>>

\* The server from its start to the launch of a request's process, on a
\* host with any account and group databases.
IdentityInit ==
    /\ passwd \in SUBSET AccountNames
    /\ grpdb \in SUBSET GroupNames
    /\ UNPRIVILEGED = Unresolved
    /\ ExecQuiet
    /\ RunnerQuiet
    /\ ServerQuiet

IdentityNext ==
    \/ ResolveIdentity
    \/ Receive
    \/ MakeTempDir
    \/ WriteSource
    \/ Launch

SpecIdentity == IdentityInit /\ [][IdentityNext]_vars

Range(seq) == {seq[i] : i \in DOMAIN seq}

\* ---- C12: the resolved pair is never root: it is a candidate user and a
\* candidate group that the host knows, or ("65534", "65534") when a
\* candidate user or a candidate group is missing; once resolved it never
\* changes; every launched command line runs as that pair.
C12_IdentityUnprivileged ==
    /\ [](UNPRIVILEGED # Unresolved =>
            /\ UNPRIVILEGED.user # "root"
            /\ UNPRIVILEGED.group # "root"
            /\ \/ /\ UNPRIVILEGED.user \in Range(possible_users) \cap passwd
                  /\ UNPRIVILEGED.group \in Range(possible_groups) \cap grpdb
               \/ /\ UNPRIVILEGED = [user |-> "65534", group |-> "65534"]
                  /\ \/ Range(possible_users) \cap passwd = {}
                     \/ Range(possible_groups) \cap grpdb = {})
    /\ [][UNPRIVILEGED # Unresolved => UNPRIVILEGED' = UNPRIVILEGED]_vars
    /\ [](process # "none" =>
            /\ UNPRIVILEGED # Unresolved
            /\ nsjail_cmd.user = UNPRIVILEGED.user
            /\ nsjail_cmd.group = UNPRIVILEGED.group)

C12_Witness ==
    /\ process = "running"
    /\ "root" \in passwd
    /\ "root" \in grpdb
    /\ nsjail_cmd.user = "daemon"
    /\ nsjail_cmd.group = "nogroup"

\* ---- C13: a request whose process has been launched has a positive
\* timeout, and the time limit, the CPU limit and the deadline passed on
\* for it are positive.
C13_LaunchedTimeoutPositive ==
    process # "none" =>
        /\ request.timeout > 0
        /\ nsjail_cmd.time_limit > 0
        /\ nsjail_cmd.rlimit_cpu > 0
        /\ Deadline(request) > 0

\* ---- C14: when the launched process could not set its restrictions up,
\* the request ends as LAUNCH_FAILED, with an internal error and no process
\* output, and not as a completed result.
C14_SetupFailureIsLaunchFailed ==
    (pc = "done" /\ guest.st = "setup_failed" /\ request.timeout > 0) =>
        /\ state = "LAUNCH_FAILED"
        /\ response.kind = "HTTPException"

Terminal == {"COMPLETED", "TIMED_OUT", "LAUNCH_FAILED"}

Transitions ==
    {<<"IDLE", "PREPARING">>,
     <<"PREPARING", "RUNNING">>, <<"PREPARING", "LAUNCH_FAILED">>,
     <<"RUNNING", "COMPLETED">>, <<"RUNNING", "TIMED_OUT">>,
     <<"RUNNING", "LAUNCH_FAILED">>}

C16_RequestLifecycle ==
    /\ [][state' # state => <<state, state'>> \in Transitions]_vars
    /\ [][(state \in Terminal) => (state' = state /\ response' = response)]_vars
    /\ [][(state = "PREPARING" /\ state' = "LAUNCH_FAILED") =>
             process' = "none"]_vars
    /\ [](state \in {"IDLE", "PREPARING"} => process = "none")
    /\ [](state \in Terminal <=> response.kind # "None")
    /\ [](state \in {"COMPLETED", "TIMED_OUT"} => response.kind = "CodeResponse")
    /\ [](state = "LAUNCH_FAILED" => response.kind = "HTTPException")
    /\ [](state \in {"PREPARING", "RUNNING"} => <>(state \in Terminal))

C16_Witness ==
    /\ state = "LAUNCH_FAILED"
    /\ response.kind = "HTTPException"
    /\ temp_dir # None
    /\ process = "none"

\* ---- C18: a runner that installed its limits and loaded its filter, and
\* was given a source file that exists, has entered the guest code by the
\* time it exits: what it does between loading the filter and exec (open
\* and read the file) is permitted by the filter.
C18_GuestReached ==
    (rpc = "exited" /\ LimitsSet /\ flt.loaded /\ renv.argv1 /\ renv.exists) =>
        guestRan

\* ---- C20: the resolved user is the first name of possible_users that the
\* host knows and the resolved group the first name of possible_groups that
\* the host knows; if no candidate user or no candidate group is known,
\* both are "65534". A name is never paired with the number, and neither
\* value is empty or missing.
C20_FirstKnownOrPairFallback ==
    UNPRIVILEGED # Unresolved =>
        LET ku == {i \in DOMAIN possible_users : possible_users[i] \in passwd}
            kg == {j \in DOMAIN possible_groups : possible_groups[j] \in grpdb}
        IN  /\ UNPRIVILEGED.user \notin {None, ""}
            /\ UNPRIVILEGED.group \notin {None, ""}
            /\ UNPRIVILEGED.user = "65534" <=> UNPRIVILEGED.group = "65534"
            /\ IF ku = {} \/ kg = {}
               THEN UNPRIVILEGED = [user |-> "65534", group |-> "65534"]
               ELSE \E i \in ku, j \in kg :
                       /\ \A k \in ku : i <= k
                       /\ \A k \in kg : j <= k
                       /\ UNPRIVILEGED.user = possible_users[i]
                       /\ UNPRIVILEGED.group = possible_groups[j]

\* A host that knows candidate users but no candidate group: both values
\* fall back.
C20_Witness ==
    /\ UNPRIVILEGED = [user |-> "65534", group |-> "65534"]
    /\ {"nobody", "daemon"} \subseteq passwd
    /\ grpdb = {"root"}

\* ------------------------------------------------------------ requests at the server
\* TemporaryDirectory cleanup on the host's file system, file contents
\* included.
ServerCleanup(f, dir, exc) ==
    LET c == Cleanup([dirs |-> f.dirs, files |-> f.files], dir, exc)
    IN  [dirs |-> c.dirs, files |-> c.files,
         data |-> {x \in f.data : x[1] \in c.files}]

\* What is read from the file at path.
ContentAt(f, path) == {x[2] : x \in {y \in f.data : y[1] = path}}

\* The responses of one execute request on a host where every step of the
\* handler succeeds, by what the interpreter was started on. A program that
\* never exits is ended by nsjail's --time_limit (the timeout) or by the
\* handler's deadline (one second later), whichever acts first.
Outcomes(src, timeout) ==
    IF src = "print" THEN {CodeResponse(<<"a">>, <<>>, 0)}
    ELSE IF src = "loop"
         THEN {CodeResponse(<<>>, <<>>, SignalStatus(9)),
               TimedOutResult(<<>>, <<>>)}
    ELSE {CodeResponse(<<>>, <<"No such file">>, 2)}

\* main.py lines 32-35, api.py lines 142-145.
Healthy == [kind |-> "JSON", status |-> "healthy"]

\* A request reaches the server's socket.
Arrive(r) ==
    /\ hpc[r] = "absent"
    /\ \E k \in {"execute", "health"}, c \in ServerCodes, t \in ServerTimeouts :
          hreq' = [hreq EXCEPT ![r] = [kind |-> k, code |-> c, timeout |-> t]]
    /\ hpc' = [hpc EXCEPT ![r] = "pending"]
    /\ UNCHANGED <<loop, hid, hdir, sfs, hsrc, hresp>>
    /\ UNCHANGED <<idVars, execVars, runnerVars>>

\* The event loop, when it runs no handler, starts the handler of a pending
\* request. health_check returns at once; execute_code (an async def with
\* no await in its body) keeps the loop until it returns or raises.
Begin(r) ==
    /\ loop = None
    /\ hpc[r] = "pending"
    /\ IF hreq[r].kind = "health"
       THEN /\ hresp' = [hresp EXCEPT ![r] = Healthy]
            /\ hpc' = [hpc EXCEPT ![r] = "done"]
            /\ UNCHANGED <<loop, hid>>
       ELSE /\ loop' = r
            /\ \E id \in ServerUuids : hid' = [hid EXCEPT ![r] = id]
            /\ hpc' = [hpc EXCEPT ![r] = "mkdtemp"]
            /\ UNCHANGED hresp
    /\ UNCHANGED <<hreq, hdir, sfs, hsrc>>
    /\ UNCHANGED <<idVars, execVars, runnerVars>>

\* The handler of r returns resp or raises exc: its directory, if it has
\* one, is cleaned up and the event loop is free again.
Finish(r, resp, exc) ==
    /\ hresp' = [hresp EXCEPT ![r] = resp]
    /\ sfs' = IF hdir[r] = None THEN sfs ELSE ServerCleanup(sfs, hdir[r], exc)
    /\ hpc' = [hpc EXCEPT ![r] = "done"]
    /\ loop' = None

\* api.py line 23.
HandlerMakeTempDir(r) ==
    /\ loop = r
    /\ hpc[r] = "mkdtemp"
    /\ \/ \E d \in ServerTempNames \ sfs.dirs :
             /\ hdir' = [hdir EXCEPT ![r] = d]
             /\ sfs' = [sfs EXCEPT !.dirs = @ \cup {d}]
             /\ hpc' = [hpc EXCEPT ![r] = "write"]
             /\ UNCHANGED <<loop, hresp>>
       \/ /\ Finish(r, HTTPException("OSError"), "OSError")
          /\ UNCHANGED hdir
    /\ UNCHANGED <<hreq, hid, hsrc>>
    /\ UNCHANGED <<idVars, execVars, runnerVars>>

\* api.py lines 24-26.
HandlerWriteSource(r) ==
    /\ loop = r
    /\ hpc[r] = "write"
    /\ LET file_path == FilePath(hdir[r], hid[r])
       IN  \/ /\ sfs' = [sfs EXCEPT
                            !.files = @ \cup {file_path},
                            !.data = {x \in @ : x[1] # file_path}
                                         \cup {<<file_path, hreq[r].code>>}]
              /\ hpc' = [hpc EXCEPT ![r] = "popen"]
              /\ UNCHANGED <<loop, hresp>>
           \/ Finish(r, HTTPException("OSError"), "OSError")
    /\ UNCHANGED <<hreq, hid, hdir, hsrc>>
    /\ UNCHANGED <<idVars, execVars, runnerVars>>

\* api.py lines 28-60: the interpreter is started on what file_path holds.
HandlerLaunch(r) ==
    /\ loop = r
    /\ hpc[r] = "popen"
    /\ \/ /\ LET found == ContentAt(sfs, FilePath(hdir[r], hid[r]))
             IN  \E c \in (IF found = {} THEN {"missing"} ELSE found) :
                    hsrc' = [hsrc EXCEPT ![r] = c]
          /\ hpc' = [hpc EXCEPT ![r] = "communicate"]
          /\ UNCHANGED <<loop, sfs, hresp>>
       \/ /\ Finish(r, HTTPException("OSError"), "OSError")
          /\ UNCHANGED hsrc
    /\ UNCHANGED <<hreq, hid, hdir>>
    /\ UNCHANGED <<idVars, execVars, runnerVars>>

\* api.py lines 62-76: the wait and its result, in one step.
HandlerWait(r) ==
    /\ loop = r
    /\ hpc[r] = "communicate"
    /\ \E o \in Outcomes(hsrc[r], hreq[r].timeout) : Finish(r, o, None)
    /\ UNCHANGED <<hreq, hid, hdir, hsrc>>
    /\ UNCHANGED <<idVars, execVars, runnerVars>>

ServerInit ==
    /\ passwd = {"root"}
    /\ grpdb = {"root"}
    /\ UNPRIVILEGED = _get_user_group(passwd, grpdb)
    /\ ExecQuiet
    /\ RunnerQuiet
    /\ ServerQuiet

ServerNext ==
    \E r \in ReqIds :
        \/ Arrive(r)
        \/ Begin(r)
        \/ HandlerMakeTempDir(r)
        \/ HandlerWriteSource(r)
        \/ HandlerLaunch(r)
        \/ HandlerWait(r)

SpecServer == ServerInit /\ [][ServerNext]_vars

\* A request that holds a temporary directory.
HasDir(r) == hpc[r] \in {"write", "popen", "communicate"}
\* A request whose source file has been written.
HasFile(r) == hpc[r] \in {"popen", "communicate"}

\* Each request works in a directory and on a source file of its own,
\* which hold what it wrote for as long as it uses them.
Isolated ==
    /\ \A r, q \in ReqIds :
          (r # q /\ HasDir(r) /\ HasDir(q)) =>
              /\ hdir[r] # hdir[q]
              /\ FilePath(hdir[r], hid[r]) # FilePath(hdir[q], hid[q])
    /\ \A r \in ReqIds :
          HasDir(r) => hdir[r] \in sfs.dirs
    /\ \A r \in ReqIds :
          HasFile(r) =>
              /\ FilePath(hdir[r], hid[r]) \in sfs.files
              /\ ContentAt(sfs, FilePath(hdir[r], hid[r])) = {hreq[r].code}
    /\ \A r \in ReqIds :
          hpc[r] = "communicate" => hsrc[r] = hreq[r].code

\* ---- C17: requests share no mutable state. Each request has a temporary
\* directory and a source file of its own that no other request writes or
\* removes, and what it answers is determined by its code and its timeout:
\* two requests with the same deterministic code and the same timeout that
\* both ran it answer with the same exit code and output.
C17_IsolatedAndRepeatable ==
    /\ Isolated
    /\ \A r, q \in ReqIds :
          (/\ hpc[r] = "done" /\ hpc[q] = "done"
           /\ hresp[r].kind = "CodeResponse" /\ hresp[q].kind = "CodeResponse"
           /\ hreq[r].code = hreq[q].code
           /\ hreq[r].timeout = hreq[q].timeout) =>
              hresp[r] = hresp[q]

\* ---- C19: a request that waits for its guest does not hold up others.
\* While one execute handler is in its wait, a pending request (execute or
\* health check) can be started.
C19_WaitingHoldsUpNoOne ==
    \A r, q \in ReqIds :
        (hpc[r] = "communicate" /\ hpc[q] = "pending") => ENABLED Begin(q)

====
